---- MODULE Spec2Model ----
(***************************************************************************)
(* Model of the browser-side probe orchestrator, class                     *)
(* FingerprintMediaTest (src/unnamed/part_010).                            *)
(*                                                                         *)
(*   Spec           the runTests pipeline, the start button, the page      *)
(*                  signals (visibilitychange / pagehide / beforeunload)   *)
(*                  and the media stream they share                        *)
(*   SpecIncognito  detectIncognitoMode, one action per await point        *)
(*   SpecLocalIPs   getLocalIPs: peer connection events racing the timer   *)
(*   SpecCapture    captureImageFrame: the draws and their retries         *)
(*   SpecPublicIP   getPublicIP: the same-origin lookup and its fallback   *)
(*   SpecProbes     the probes one run awaits, up to getUserMedia          *)
(*   SpecLive       Spec with every awaited answer eventually delivered    *)
(*   SpecHash       generateFingerprintHash, over sequences of calls       *)
(*   SpecRecord     recordAudio and the rest of the run after it           *)
(*   SpecAudio      getAudioFingerprint: the audio graph a call leaves     *)
(*   SpecServer     the server (src/project-root/server.js): requests      *)
(*                  through the middleware chain and the routes            *)
(*   SpecTracking   the mousemove and touch listeners                      *)
(*                  (src/project-root/public/collect.js)                   *)
(*                                                                         *)
(* JavaScript runs one task at a time: everything between two await points *)
(* of a handler (promise continuations included) is one atomic action.     *)
(***************************************************************************)
EXTENDS Integers, Sequences, FiniteSets, TLC

VARIABLES
    \* ---- runTests pipeline ----
    pc,            \* pc[r]: the await point run r is suspended at
    tracks,        \* tracks[r]: readyState of the tracks of the stream run r acquired
    app,           \* fields of the FingerprintMediaTest object and of the DOM it owns
    nextRun,       \* number of the next click on the start button
    lastCleanups,  \* number of cleanup() calls the last handler made
    interrupted,   \* interrupted[r]: run r is in progress and a page signal was
                   \* delivered since it started
    posts,         \* posts[r]: the POSTs of the report run r has made, each
                   \* "pending", "ok" or "failed"
    \* ---- detectIncognitoMode ----
    env,           \* the browser: user agent tests, which APIs exist, how the
                   \* synchronous calls and the requestFileSystem callbacks behave
    det,           \* the invocation: [dpc, results, idbReq, allThrew, register,
                   \* quota]
    \* ---- getLocalIPs ----
    ip,            \* the invocation: the peer connection, the offer chain, the
                   \* timer, the address sets and the promise
    \* ---- captureImageFrame ----
    cap,           \* the invocation: [cpc, attempts, draws, imageData, blobOf,
                   \* attemptsLeft]
    \* ---- getPublicIP ----
    pub,           \* the invocation: the await it is at, what the two lookups
                   \* answered, the value returned
    \* ---- the probes of one run ----
    fp,            \* the await the run is at, the log of probe starts and ends,
                   \* the features gathered
    \* ---- generateFingerprintHash ----
    hs,            \* the calls made: the data and the digest of each
    \* ---- recordAudio ----
    rec,           \* the recorder, its chunks, the promise and the rest of the run
    \* ---- getAudioFingerprint ----
    au,            \* the graphs the calls made so far have left, one per call
    \* ---- the server ----
    srv,           \* the requests: of each its stage, the response written,
                   \* the upload and its timer
    \* ---- trackMouseMovements ----
    mm             \* the events kept, the events that arrived, the clock

mainVars == <<pc, tracks, app, nextRun, lastCleanups, interrupted, posts>>

incVars == <<env, det>>

auxVars == <<cap, pub, fp, hs, rec, au, srv, mm>>

vars == <<pc, tracks, app, nextRun, lastCleanups, interrupted, posts, env, det, ip, cap, pub, fp, hs, rec, au, srv, mm>>

\* Number of clicks on the start button that are modelled.
MaxRuns == 3

Runs == 1..MaxRuns

\* 0 stands for null (no stream).
NoStream == 0

(***************************************************************************)
(* cleanup() and the helpers it calls                                      *)
(***************************************************************************)

\* track.stop(): a live track ends, an ended or absent one stays as it is.
stop(t) == IF t = "live" THEN "ended" ELSE t

\* A cleanup that stops the first live track only.
stopTracksFirstOnly(ms, tr) ==
    IF ms = NoStream THEN tr
    ELSE [tr EXCEPT ![ms] = IF @.video = "live"
                            THEN [@ EXCEPT !.video = "ended"]
                            ELSE [@ EXCEPT !.audio = stop(@)]]

\* this.mediaStream.getTracks().forEach(track => track.stop()), guarded by
\* if (this.mediaStream).
stopTracks(ms, tr) ==
    IF ms = NoStream THEN tr
    ELSE [tr EXCEPT ![ms] = [video |-> stop(@.video), audio |-> stop(@.audio)]]

stopAudioVisualizer(a) ==
    [a EXCEPT !.audioVisualizerActive = FALSE,
              !.barsAtRest = TRUE,
              !.audioContext = "null",
              !.analyser = "null"]

\* w = [app |-> ..., tracks |-> ...]; the result has the same shape.
cleanup(w) ==
    [tracks |-> stopTracks(w.app.mediaStream, w.tracks),
     app    |-> [stopAudioVisualizer(w.app) EXCEPT
                    !.srcObject = NoStream,
                    !.videoDisplay = "none",
                    !.placeholderDisplay = "block"]]

\* startButton.disabled = isLoading; a call without the second argument
\* passes undefined, which the DOM stores as false.
setTestStatus(a, message, isLoading, buttonText) ==
    [a EXCEPT !.statusText = message,
              !.buttonDisabled = isLoading,
              !.buttonText = IF isLoading THEN "Starting Test..." ELSE buttonText]

setMediaStatus(a, status, cameraText, micText) ==
    [a EXCEPT !.statusText = status,
              !.cameraStatus = cameraText,
              !.micStatus = micText]

World == [app |-> app, tracks |-> tracks]

NoTracks == [video |-> "none", audio |-> "none"]

Live(r) == tracks[r].video = "live" \/ tracks[r].audio = "live"

\* The await points of runTests.  Consecutive awaits between which the
\* handler writes nothing that another handler reads are one await point:
\*   "privacy"    updatePrivacyStatus, getPublicIP
\*   "gather"     getLocalIPs, getLocalIPLocation, gatherRawFingerprint
\*   "post"       the POST of the report
\*   "gum"        getUserMedia
\*   "meta"       the loadedmetadata promise of setupVideoStream
\*   "play"       localVideo.play()
\*   "camera"     captureImageFrame, saveProcessedMedia('image')
\*   "microphone" recordAudio, saveProcessedMedia('audio')
\*   "location"   collectLocation
Awaiting == {"privacy", "gather", "post", "gum", "meta", "play",
             "camera", "microphone", "location"}

Settled == {"done", "failed"}

InProgress(r) == pc[r] \in Awaiting

MainInit ==
    /\ pc = [r \in Runs |-> "idle"]
    /\ posts = [r \in Runs |-> <<>>]
    /\ tracks = [r \in Runs |-> NoTracks]
    /\ app = [mediaStream |-> NoStream,
              audioContext |-> "null",
              analyser |-> "null",
              audioVisualizerActive |-> FALSE,
              barsAtRest |-> TRUE,
              srcObject |-> NoStream,
              videoDisplay |-> "",
              placeholderDisplay |-> "",
              metaWaiter |-> NoStream,
              buttonDisabled |-> FALSE,
              buttonText |-> "Start Test",
              statusText |-> "",
              cameraStatus |-> "",
              micStatus |-> ""]
    /\ nextRun = 1
    /\ lastCleanups = 0
    /\ interrupted = [r \in Runs |-> FALSE]

(***************************************************************************)
(* runTests (the later of the two definitions in the class, which is the   *)
(* one installed on the prototype) and the pipeline steps it awaits        *)
(***************************************************************************)

Resume(r, newpc, w, n, p) ==
    /\ pc' = [pc EXCEPT ![r] = newpc]
    /\ app' = w.app
    /\ tracks' = w.tracks
    /\ lastCleanups' = n
    /\ interrupted' = [interrupted EXCEPT ![r] = @ /\ newpc \notin Settled]
    /\ posts' = [posts EXCEPT ![r] = p]
    /\ UNCHANGED <<incVars, ip, auxVars>>

\* A step of run r that sends no POST of the report and receives no answer
\* to one.
Goto(r, newpc, w, n) == Resume(r, newpc, w, n, posts[r])

\* Two fetch calls where the code has one.
fetchPostTwice(p) == Append(Append(p, "pending"), "pending")

\* await fetch('/collect-fingerprint', { method: 'POST', ... })
fetchPost(p) == Append(p, "pending")

\* The answer to the POST that is pending: response.ok, or else the Error
\* that collectEnhancedFingerprint throws and its catch throws again.
answered(p, answer) == [p EXCEPT ![Len(p)] = answer]

\* `Test encountered an error: ${error.message}`; an error is named by its
\* name, which stands for its message too.
errorStatus(err) == "Test encountered an error: " \o err

\* catch (error) { setTestStatus(..., false, "Retry Test") } finally { cleanup() }
runTestsCatch(w, err) ==
    cleanup([w EXCEPT !.app =
        setTestStatus(@, errorStatus(err), FALSE, "Retry Test")])

\* the end of the try block followed by finally { cleanup() }
runTestsSuccess(w) ==
    cleanup([w EXCEPT !.app =
        setTestStatus(@, "Test completed successfully", FALSE, "Test Again")])

\* The message handleMediaError picks for an error with a name and a message.
mediaErrorMessage(err) ==
    CASE err = "NotAllowedError"   -> "Camera/microphone access denied"
      [] err = "NotFoundError"     -> "No camera or microphone found"
      [] err = "NotSupportedError" -> "Media capture not supported"
      [] err = "timeout"           -> "Permission request timed out"
      [] OTHER                     -> "Unknown error occurred"

\* A handler that writes no status.
handleMediaErrorSilent(a, err) == a

handleMediaError(a, err) ==
    setMediaStatus(a, mediaErrorMessage(err), "Failed", "Failed")

\* captureAndSaveMedia's catch block, rethrowing into runTests' catch/finally.
MediaFail(r, err) ==
    Goto(r, "failed",
         runTestsCatch([World EXCEPT !.app = handleMediaError(@, err)], err), 1)

\* A click on the start button; a disabled button dispatches no click.
Click(r) ==
    /\ r = nextRun
    /\ pc[r] = "idle"
    /\ ~app.buttonDisabled
    /\ nextRun' = nextRun + 1
    /\ Goto(r, "privacy",
            [cleanup(World) EXCEPT !.app =
                setTestStatus(@, "Initializing test...", TRUE, "Start Test")], 1)

\* updatePrivacyStatus and getPublicIP have resolved (neither rejects).
PrivacyDone(r) ==
    /\ pc[r] = "privacy"
    /\ UNCHANGED nextRun
    /\ Goto(r, "gather",
            [World EXCEPT !.app =
                setTestStatus(@, "Checking local network...", TRUE, "Start Test")], 0)

\* getLocalIPs and getLocalIPLocation have resolved (neither rejects), and in
\* collectEnhancedFingerprint gatherRawFingerprint has: the POST is sent.
GatherDone(r) ==
    /\ pc[r] = "gather"
    /\ UNCHANGED nextRun
    /\ Resume(r, "post",
              [World EXCEPT !.app =
                  setTestStatus(@, "Uploading fingerprint data...", TRUE, "Start Test")],
              0, fetchPost(posts[r]))

\* gatherRawFingerprint or processFingerprintData threw.
GatherFail(r) ==
    /\ pc[r] = "gather"
    /\ UNCHANGED nextRun
    /\ Goto(r, "failed", runTestsCatch(World, "other"), 1)

\* The POST answered 2xx; captureAndSaveMedia starts and calls getUserMedia.
PostOk(r) ==
    /\ pc[r] = "post"
    /\ UNCHANGED nextRun
    /\ Resume(r, "gum",
              [World EXCEPT !.app =
                  setMediaStatus(@, "Checking camera and microphone permissions...",
                                 "Checking...", "Checking...")],
              0, answered(posts[r], "ok"))

\* The POST answered non-2xx or the fetch rejected.
\* A catch in collectEnhancedFingerprint that does not throw again: runTests
\* goes on to captureAndSaveMedia.
postFailureSwallowed(w) ==
    [pc |-> "gum",
     world |-> [w EXCEPT !.app =
                   setMediaStatus(@, "Checking camera and microphone permissions...",
                                  "Checking...", "Checking...")],
     cleanups |-> 0]

\* catch (error) { ...; throw new Error(userMessage); } in
\* collectEnhancedFingerprint: the error reaches the catch of runTests.
postFailure(w) ==
    [pc |-> "failed", world |-> runTestsCatch(w, "other"), cleanups |-> 1]

PostFail(r) ==
    /\ pc[r] = "post"
    /\ UNCHANGED nextRun
    /\ LET f == postFailure(World)
       IN  Resume(r, f.pc, f.world, f.cleanups, answered(posts[r], "failed"))

\* The synchronous head of setupVideoStream(stream).
setupVideoStream(a, s) ==
    [a EXCEPT !.srcObject = s,
              !.videoDisplay = "block",
              !.placeholderDisplay = "none",
              !.metaWaiter = s]

\* getUserMedia resolved: this.mediaStream = stream; setupVideoStream(stream).
GumGranted(r, hasAudio) ==
    /\ pc[r] = "gum"
    /\ UNCHANGED nextRun
    /\ Goto(r, "meta",
            [app    |-> setupVideoStream([app EXCEPT !.mediaStream = r], r),
             tracks |-> [tracks EXCEPT ![r] =
                            [video |-> "live",
                             audio |-> IF hasAudio THEN "live" ELSE "none"]]], 0)

GumErrors == {"NotAllowedError", "NotFoundError", "NotSupportedError", "other"}

GumRejected(r, err) ==
    /\ pc[r] = "gum"
    /\ UNCHANGED nextRun
    /\ MediaFail(r, err)

\* loadedmetadata on the video element: calls the installed onloadedmetadata,
\* the resolve of the run that last called setupVideoStream.
LoadedMetadata ==
    /\ app.srcObject # NoStream
    /\ app.metaWaiter # NoStream
    /\ pc[app.metaWaiter] = "meta"
    /\ UNCHANGED nextRun
    /\ Goto(app.metaWaiter, "play", World, 0)

\* error on the video element: onerror = reject, called with the event.
\* handleMediaError(event) reads event.message.includes and throws a
\* TypeError before setMediaStatus; runTests' catch takes over.
VideoError ==
    /\ app.srcObject # NoStream
    /\ app.metaWaiter # NoStream
    /\ pc[app.metaWaiter] = "meta"
    /\ UNCHANGED nextRun
    /\ Goto(app.metaWaiter, "failed", runTestsCatch(World, "other"), 1)

\* localVideo.play() resolved; testCamera starts.  Assigning srcObject (null
\* in cleanup, another stream in a later setupVideoStream) rejects the
\* pending play() promise, so play() resolves only for the stream the
\* element still has.
PlayOk(r) ==
    /\ pc[r] = "play"
    /\ app.srcObject = r
    /\ UNCHANGED nextRun
    /\ Goto(r, "camera",
            [World EXCEPT !.app =
                setTestStatus([@ EXCEPT !.cameraStatus = "Detected"],
                              "Testing camera... Smile!", FALSE, "Start Test")], 0)

PlayFail(r) ==
    /\ pc[r] = "play"
    /\ UNCHANGED nextRun
    /\ MediaFail(r, "other")

animateAudioVisualizer(a) ==
    [stopAudioVisualizer(a) EXCEPT !.audioContext = "running",
                                   !.analyser = "set",
                                   !.audioVisualizerActive = TRUE,
                                   !.barsAtRest = FALSE]

\* captureImageFrame resolved with a blob and saveProcessedMedia('image')
\* resolved; testCamera returns and captureAndSaveMedia looks at
\* this.mediaStream.getAudioTracks().
CameraOk(r) ==
    /\ pc[r] = "camera"
    /\ UNCHANGED nextRun
    /\ LET a1 == [app EXCEPT !.cameraStatus = "Working properly"]
       IN IF tracks[app.mediaStream].audio # "none"
          THEN Goto(r, "microphone",
                    [World EXCEPT !.app =
                        setTestStatus(
                            [animateAudioVisualizer(a1) EXCEPT !.micStatus = "Detected"],
                            "Testing microphone... Speak now!", FALSE, "Start Test")], 0)
          ELSE Goto(r, "location",
                    [World EXCEPT !.app = [a1 EXCEPT !.micStatus = "Not detected"]], 0)

\* captureImageFrame resolved with null (testCamera throws) or
\* saveProcessedMedia('image') rejected.
CameraFail(r) ==
    /\ pc[r] = "camera"
    /\ UNCHANGED nextRun
    /\ MediaFail(r, "other")

\* recordAudio resolved (it never rejects): with null, and testMicrophone
\* returns; or with a blob, and saveProcessedMedia('audio') resolved.
MicrophoneDone(r, gotBlob) ==
    /\ pc[r] = "microphone"
    /\ UNCHANGED nextRun
    /\ Goto(r, "location",
            [World EXCEPT !.app =
                IF gotBlob THEN [@ EXCEPT !.micStatus = "Working properly"] ELSE @], 0)

\* recordAudio resolved with a blob and saveProcessedMedia('audio') rejected.
MicrophoneFail(r) ==
    /\ pc[r] = "microphone"
    /\ UNCHANGED nextRun
    /\ MediaFail(r, "other")

\* collectLocation resolved (it never rejects); runTests ends its try block.
LocationDone(r) ==
    /\ pc[r] = "location"
    /\ UNCHANGED nextRun
    /\ Goto(r, "done", runTestsSuccess(World), 1)

(***************************************************************************)
(* Page signals: the three listeners the constructor installs              *)
(***************************************************************************)

\* const cleanupHandler = () => { try { this.cleanup(); } catch (e) {} }
cleanupHandler ==
    /\ app' = cleanup(World).app
    /\ tracks' = cleanup(World).tracks
    /\ lastCleanups' = 1
    /\ interrupted' = [r \in Runs |-> interrupted[r] \/ InProgress(r)]
    /\ UNCHANGED <<pc, nextRun, posts>>
    /\ UNCHANGED <<incVars, ip, auxVars>>

\* visibilitychange: if (document.visibilityState === 'hidden') cleanupHandler()
VisibilityChange(hidden) ==
    IF hidden THEN cleanupHandler
    ELSE /\ lastCleanups' = 0
         /\ UNCHANGED <<pc, tracks, app, nextRun, interrupted, posts>>
         /\ UNCHANGED <<incVars, ip, auxVars>>

PageHide == cleanupHandler

BeforeUnload == cleanupHandler

Next ==
    \/ \E r \in Runs : Click(r)
    \/ \E r \in Runs : PrivacyDone(r)
    \/ \E r \in Runs : GatherDone(r)
    \/ \E r \in Runs : GatherFail(r)
    \/ \E r \in Runs : PostOk(r)
    \/ \E r \in Runs : PostFail(r)
    \/ \E r \in Runs, hasAudio \in BOOLEAN : GumGranted(r, hasAudio)
    \/ \E r \in Runs, err \in GumErrors : GumRejected(r, err)
    \/ LoadedMetadata
    \/ VideoError
    \/ \E r \in Runs : PlayOk(r)
    \/ \E r \in Runs : PlayFail(r)
    \/ \E r \in Runs : CameraOk(r)
    \/ \E r \in Runs : CameraFail(r)
    \/ \E r \in Runs, gotBlob \in BOOLEAN : MicrophoneDone(r, gotBlob)
    \/ \E r \in Runs : MicrophoneFail(r)
    \/ \E r \in Runs : LocationDone(r)
    \/ \E hidden \in BOOLEAN : VisibilityChange(hidden)
    \/ PageHide
    \/ BeforeUnload

(***************************************************************************)
(* detectIncognitoMode                                                     *)
(*                                                                         *)
(* One action per resumption: from an await point (or the call) the        *)
(* function runs synchronously to its next await or to its return.  The    *)
(* enter... operators are that synchronous code, one per detection method. *)
(***************************************************************************)

\* 120 * 1024 * 1024, the quota below which storageQuota is recorded.
LowQuota == 120 * 1024 * 1024

\* The quotas navigator.storage.estimate() is taken to report.
Quotas == {0, 1, LowQuota - 1, LowQuota, LowQuota + 1}

Envs ==
    [chrome      : BOOLEAN,   \* navigator.userAgent.includes('Chrome')
     firefox     : BOOLEAN,   \* navigator.userAgent.includes('Firefox')
     safari      : BOOLEAN,   \* /Safari/.test(navigator.userAgent)
     hasEstimate : BOOLEAN,   \* 'storage' in navigator && 'estimate' in navigator.storage
     fs          : {"absent", "throws", "success", "error", "never"},
                              \* requestFileSystem: missing, throws when called, or
                              \* calls the success callback, the error callback, neither
     idbOpen     : {"throws", "returns"},   \* indexedDB.open('test')
     ls          : {"throws", "ok"},        \* localStorage.setItem / removeItem
     hasSW       : BOOLEAN]   \* 'serviceWorker' in navigator

NoResults == [isIncognito |-> FALSE, detectionMethods |-> <<>>]

\* results.isIncognito = true; results.detectionMethods.push(m)
record(res, m) ==
    [isIncognito |-> TRUE, detectionMethods |-> Append(res.detectionMethods, m)]

\* A final rule that never downgrades the verdict.
twoMethodRuleOff(res) == res

\* if (results.detectionMethods.length < 2) results.isIncognito = false
twoMethodRule(res) ==
    IF Len(res.detectionMethods) < 2 THEN [res EXCEPT !.isIncognito = FALSE] ELSE res

\* the two-method rule and return results
finish(d) == [d EXCEPT !.results = twoMethodRule(@), !.dpc = "returned"]

\* "Only use serviceWorker as last resort and only for Chrome"
enterServiceWorker(d) ==
    IF d.results.isIncognito = FALSE /\ env.chrome /\ env.hasSW
    THEN [d EXCEPT !.dpc = "getRegistration"]
    ELSE finish(d)

\* Method 4: localStorage (Safari-specific); the catch block records the signal.
enterLocalStorage(d) ==
    IF env.safari /\ ~env.chrome
    THEN IF env.ls = "throws"
         THEN enterServiceWorker([d EXCEPT !.results = record(@, "localStorage")])
         ELSE enterServiceWorker([d EXCEPT !.allThrew = FALSE])
    ELSE enterServiceWorker(d)

\* Method 3 without its try/catch: an exception of indexedDB.open escapes.
enterIndexedDBNoCatch(d) ==
    IF env.firefox
    THEN IF env.idbOpen = "throws"
         THEN [d EXCEPT !.dpc = "threw"]
         ELSE [d EXCEPT !.dpc = "idbWait", !.idbReq = "pending", !.allThrew = FALSE]
    ELSE enterLocalStorage(d)

\* Method 3: IndexedDB (Firefox-specific): open, install onerror, wait 100 ms.
enterIndexedDB(d) ==
    IF env.firefox
    THEN IF env.idbOpen = "throws"
         THEN enterLocalStorage(d)
         ELSE [d EXCEPT !.dpc = "idbWait", !.idbReq = "pending", !.allThrew = FALSE]
    ELSE enterLocalStorage(d)

\* Method 2: FileSystem API: await a promise that only the callbacks resolve.
enterFileSystem(d) ==
    IF env.fs # "absent"
    THEN IF env.fs = "throws"
         THEN enterIndexedDB(d)
         ELSE [d EXCEPT !.dpc = "fs", !.allThrew = FALSE]
    ELSE enterIndexedDB(d)

\* An error callback that records the signal whatever the user agent is.
fsErrorCallbackAnyUA(res) == record(res, "fileSystemAPI")

\* The error callback of requestFS: records only on a Chrome user agent.
fsErrorCallback(res) ==
    IF env.chrome THEN record(res, "fileSystemAPI") ELSE res

\* quota && quota < 120 * 1024 * 1024
quotaIsLow(quota) == quota # 0 /\ quota < LowQuota

\* The call: Method 1 awaits navigator.storage.estimate() when it exists.
DetectCall ==
    /\ det.dpc = "idle"
    /\ det' = IF env.hasEstimate THEN [det EXCEPT !.dpc = "estimate"]
                                 ELSE enterFileSystem(det)
    /\ UNCHANGED <<env, mainVars, ip, auxVars>>

EstimateResolved(quota) ==
    /\ det.dpc = "estimate"
    /\ det' = enterFileSystem(
                 [det EXCEPT !.allThrew = FALSE,
                             !.quota = <<quota>>,
                             !.results = IF quotaIsLow(quota)
                                         THEN record(@, "storageQuota") ELSE @])
    /\ UNCHANGED <<env, mainVars, ip, auxVars>>

\* estimate() rejected: catch (e) {}
EstimateRejected ==
    /\ det.dpc = "estimate"
    /\ det' = enterFileSystem(det)
    /\ UNCHANGED <<env, mainVars, ip, auxVars>>

\* requestFS calls its success callback, which is resolve.
FsSuccess ==
    /\ det.dpc = "fs"
    /\ env.fs = "success"
    /\ det' = enterIndexedDB(det)
    /\ UNCHANGED <<env, mainVars, ip, auxVars>>

\* requestFS calls its error callback.
FsError ==
    /\ det.dpc = "fs"
    /\ env.fs = "error"
    /\ det' = enterIndexedDB([det EXCEPT !.results = fsErrorCallback(@)])
    /\ UNCHANGED <<env, mainVars, ip, auxVars>>

\* The 100 ms timer of Method 3; indexedDB.deleteDatabase is inside the try.
IdbTimer ==
    /\ det.dpc = "idbWait"
    /\ det' = enterLocalStorage(det)
    /\ UNCHANGED <<env, mainVars, ip, auxVars>>

\* The error event of the open request: req.onerror runs, whenever the event
\* is delivered, before or after detectIncognitoMode has returned.
IdbErrorEvent ==
    /\ det.idbReq = "pending"
    /\ det' = [det EXCEPT !.results = record(@, "indexedDB"), !.idbReq = "fired"]
    /\ UNCHANGED <<env, mainVars, ip, auxVars>>

\* getRegistration() resolved, with a registration or with undefined.
GetRegistrationResolved(registered) ==
    /\ det.dpc = "getRegistration"
    /\ det' = IF registered THEN finish([det EXCEPT !.allThrew = FALSE])
                            ELSE [det EXCEPT !.allThrew = FALSE, !.dpc = "register"]
    /\ UNCHANGED <<env, mainVars, ip, auxVars>>

\* getRegistration() rejected: the outer catch (e) {}
GetRegistrationRejected ==
    /\ det.dpc = "getRegistration"
    /\ det' = finish(det)
    /\ UNCHANGED <<env, mainVars, ip, auxVars>>

RegisterResolved ==
    /\ det.dpc = "register"
    /\ det' = finish([det EXCEPT !.allThrew = FALSE, !.register = "resolved"])
    /\ UNCHANGED <<env, mainVars, ip, auxVars>>

\* register('sw.js') rejected: recorded only if another method was recorded.
RegisterRejected ==
    /\ det.dpc = "register"
    /\ det' = LET d == [det EXCEPT !.register = "rejected"]
              IN  finish(IF Len(d.results.detectionMethods) > 0
                         THEN [d EXCEPT !.results = record(@, "serviceWorker")]
                         ELSE d)
    /\ UNCHANGED <<env, mainVars, ip, auxVars>>

\* The resumptions of detectIncognitoMode itself.
IncognitoStep ==
    \/ DetectCall
    \/ \E quota \in Quotas : EstimateResolved(quota)
    \/ EstimateRejected
    \/ FsSuccess
    \/ FsError
    \/ IdbTimer
    \/ \E registered \in BOOLEAN : GetRegistrationResolved(registered)
    \/ GetRegistrationRejected
    \/ RegisterResolved
    \/ RegisterRejected

IncognitoNext ==
    \/ IncognitoStep
    \/ IdbErrorEvent

DetIdle ==
    [dpc |-> "idle", results |-> NoResults, idbReq |-> "none", allThrew |-> TRUE,
     register |-> "none", quota |-> <<>>]

(***************************************************************************)
(* getLocalIPs (part_010 901-964)                                          *)
(*                                                                         *)
(* The executor of the promise runs synchronously in the call; afterwards  *)
(* the peer connection's events, the createOffer / setLocalDescription     *)
(* chain and the 2000 ms timer are tasks in any order.  A candidate string *)
(* is a record [addr, form]; the array a result carries is modelled by the *)
(* set of its elements.  As the platform defines it, one task sets         *)
(* iceGatheringState to 'complete' and fires the icecandidate event with a *)
(* null candidate, and a closed connection fires no events and settles no  *)
(* promise.                                                                *)
(***************************************************************************)

\* The candidate strings the browser may hand to onicecandidate.
Candidates ==
    { [addr |-> "192.168.1.5",            form |-> "v4"],
      [addr |-> "127.0.0.1",              form |-> "v4"],
      [addr |-> "203.0.113.7",            form |-> "v4"],
      [addr |-> "fe80:0:0:0:a1:b2:c3:d4", form |-> "v6full"],
      [addr |-> "fe80::1",                form |-> "v6short"],
      [addr |-> "3f2a9c.local",           form |-> "mdns"] }

NoMatch == "null"

\* candidate.match(ipRegex): four dotted groups of digits, or eight groups
\* of lower-case hex digits separated by colons; match[1] is the text.
ipRegexMatch(c) ==
    IF c.form \in {"v4", "v6full"} THEN c.addr ELSE NoMatch

\* ip.includes(':') of a matched text.
includesColon(c) == c.form = "v6full"

\* ip.includes('.local') of a matched text: the pattern matches digits,
\* hex digits, dots and colons only.
includesLocal(c) == FALSE

NotAvailable == {"Not available"}

\* ips.v4.size > 0 ? [...ips.v4] : ['Not available'], and the same for v6.
result(i) ==
    [ipv4 |-> IF i.v4 # {} THEN i.v4 ELSE NotAvailable,
     ipv6 |-> IF i.v6 # {} THEN i.v6 ELSE NotAvailable]

failureResult == [ipv4 |-> NotAvailable, ipv6 |-> NotAvailable]

NoResult == [ipv4 |-> {}, ipv6 |-> {}]

\* resolve(value): the first call settles the promise, later calls do nothing.
resolve(i, value, by) ==
    IF i.resolved THEN i
    ELSE [i EXCEPT !.resolved = TRUE, !.value = value, !.resolvedBy = by,
                   !.connAtResolve = i.conn]

\* pc.close()
close(i) == [i EXCEPT !.conn = "closed"]

timerMustCloseOnlyNew(state) == state = "new"

\* pc.iceGatheringState !== 'complete'
timerMustClose(state) == state # "complete"

IpIdle ==
    [lpc |-> "idle", conn |-> "none", gathering |-> "new", offer |-> "none",
     timer |-> "none", v4 |-> {}, v6 |-> {}, resolved |-> FALSE,
     value |-> NoResult, resolvedBy |-> "none", connAtResolve |-> "none"]

IpUnchanged == UNCHANGED <<mainVars, incVars, auxVars>>

\* The call: the executor builds the connection, installs onicecandidate,
\* starts createOffer and arms the timer; a throw of the constructor goes to
\* the catch, which resolves.
GetLocalIPsCall(hasRTC) ==
    /\ ip.lpc = "idle"
    /\ ip' = IF hasRTC
             THEN [ip EXCEPT !.lpc = "called", !.conn = "open",
                             !.offer = "pending", !.timer = "armed"]
             ELSE resolve([ip EXCEPT !.lpc = "called"], failureResult, "catch")
    /\ IpUnchanged

\* createOffer() fulfilled: .then(offer => pc.setLocalDescription(offer))
OfferResolved ==
    /\ ip.conn = "open"
    /\ ip.offer = "pending"
    /\ ip' = [ip EXCEPT !.offer = "setting"]
    /\ IpUnchanged

\* createOffer() rejected: the .catch resolves with the failure result.
OfferRejected ==
    /\ ip.conn = "open"
    /\ ip.offer = "pending"
    /\ ip' = resolve([ip EXCEPT !.offer = "failed"], failureResult, "offerError")
    /\ IpUnchanged

\* setLocalDescription(offer) fulfilled: nothing is chained after it.
SetLocalResolved ==
    /\ ip.conn = "open"
    /\ ip.offer = "setting"
    /\ ip' = [ip EXCEPT !.offer = "set"]
    /\ IpUnchanged

\* setLocalDescription(offer) rejected (the description was not applied).
SetLocalRejected ==
    /\ ip.conn = "open"
    /\ ip.offer = "setting"
    /\ ip.gathering = "new"
    /\ ip' = resolve([ip EXCEPT !.offer = "failed"], failureResult, "setLocalError")
    /\ IpUnchanged

\* The browser starts gathering once the local description is being applied.
GatheringStarts ==
    /\ ip.conn = "open"
    /\ ip.offer \in {"setting", "set"}
    /\ ip.gathering = "new"
    /\ ip' = [ip EXCEPT !.gathering = "gathering"]
    /\ IpUnchanged

\* onicecandidate with a candidate.
IceCandidate(c) ==
    /\ ip.conn = "open"
    /\ ip.gathering = "gathering"
    /\ ip' = IF ipRegexMatch(c) = NoMatch THEN ip
             ELSE IF includesColon(c)
                  THEN IF ~includesLocal(c)
                       THEN [ip EXCEPT !.v6 = @ \cup {ipRegexMatch(c)}] ELSE ip
                  ELSE IF ~includesLocal(c)
                       THEN [ip EXCEPT !.v4 = @ \cup {ipRegexMatch(c)}] ELSE ip
    /\ IpUnchanged

\* Gathering complete: onicecandidate with a null candidate.
IceGatheringComplete ==
    /\ ip.conn = "open"
    /\ ip.gathering = "gathering"
    /\ ip' = LET done == close([ip EXCEPT !.gathering = "complete"])
             IN  resolve(done, result(done), "complete")
    /\ IpUnchanged

\* The setTimeout callback, 2000 ms after the call.
IpTimer ==
    /\ ip.timer = "armed"
    /\ ip' = LET fired == [ip EXCEPT !.timer = "fired"]
             IN  IF timerMustClose(ip.gathering)
                 THEN resolve(close(fired), result(fired), "timer")
                 ELSE fired
    /\ IpUnchanged

LocalIPsNext ==
    \/ \E hasRTC \in BOOLEAN : GetLocalIPsCall(hasRTC)
    \/ OfferResolved
    \/ OfferRejected
    \/ SetLocalResolved
    \/ SetLocalRejected
    \/ GatheringStarts
    \/ \E c \in Candidates : IceCandidate(c)
    \/ IceGatheringComplete
    \/ IpTimer

(***************************************************************************)
(* captureImageFrame (part_010 528-549)                                    *)
(*                                                                         *)
(* A frame is the bytes ctx.getImageData(0, 0, 10, 10).data reads back     *)
(* after the draw, SampleBytes of them.  The executor runs the first       *)
(* attempt in the call; each retry is a timer task 200 ms later; the       *)
(* toBlob callback is a task of its own.                                   *)
(***************************************************************************)

\* Number of bytes of the sampled region that are modelled.
SampleBytes == 4

Frames == [1..SampleBytes -> {0, 255}]

\* const attemptCapture = (attempts = 3) => ...
DefaultAttempts == 3

\* Array.from(imageData).every(val => val === 0)
isBlank(imageData) == \A i \in DOMAIN imageData : imageData[i] = 0

\* A test that takes a blank frame at once.
keepsBlankFrame(blank, attempts) == blank \/ attempts <= 0

\* if (!isBlank || attempts <= 0)
takesFrame(blank, attempts) == ~blank \/ attempts <= 0

CapIdle ==
    [cpc |-> "idle", attempts |-> DefaultAttempts, draws |-> 0,
     imageData |-> [i \in 1..SampleBytes |-> 0],
     blobOf |-> "none", attemptsLeft |-> 0]

\* attemptCapture(attempts) when the video hands frame to drawImage: draw,
\* sample, then either canvas.toBlob(...) or setTimeout(..., 200).
attemptCapture(c, attempts, frame) ==
    LET drawn == [c EXCEPT !.attempts = attempts, !.draws = @ + 1,
                           !.imageData = frame]
    IN  IF takesFrame(isBlank(frame), attempts)
        THEN [drawn EXCEPT !.cpc = "encoding"]
        ELSE [drawn EXCEPT !.cpc = "waiting"]

CapUnchanged == UNCHANGED <<mainVars, incVars, ip, pub, fp, hs, rec, au, srv, mm>>

\* The call: the executor creates the canvas and runs attemptCapture().
CaptureImageFrameCall(frame) ==
    /\ cap.cpc = "idle"
    /\ cap' = attemptCapture(cap, DefaultAttempts, frame)
    /\ CapUnchanged

\* setTimeout(() => attemptCapture(attempts - 1), 200)
RetryTimer(frame) ==
    /\ cap.cpc = "waiting"
    /\ cap' = attemptCapture(cap, cap.attempts - 1, frame)
    /\ CapUnchanged

\* blob => resolve(blob): the blob encodes the canvas as toBlob found it.
ToBlobCallback ==
    /\ cap.cpc = "encoding"
    /\ cap' = [cap EXCEPT !.cpc = "resolved", !.blobOf = cap.imageData,
                          !.attemptsLeft = cap.attempts]
    /\ CapUnchanged

CaptureNext ==
    \/ \E frame \in Frames : CaptureImageFrameCall(frame)
    \/ \E frame \in Frames : RetryTimer(frame)
    \/ ToBlobCallback

(***************************************************************************)
(* getPublicIP (part_010 336-354)                                          *)
(*                                                                         *)
(* One action per await: the two fetches and the two response.json()       *)
(* calls.  A body is "invalid" (json() rejects), "undefined" (no ip field) *)
(* or the address in its ip field.                                         *)
(***************************************************************************)

Statuses == {200, 201, 400, 404, 429, 500, 503}

Addresses == {"203.0.113.7", "198.51.100.2", "2001:db8::7", "192.0.2.33"}

Bodies == Addresses \cup {"invalid", "undefined"}

\* A test that takes every answer for a success.
okAnyStatus(status) == TRUE

\* response.ok
ok(status) == status \in 200..299

PubIdle ==
    [ppc |-> "idle", own |-> "none", ownStatus |-> 0,
     ext |-> "none", extStatus |-> 0, extBody |-> "none", value |-> "pending",
     fetches |-> <<>>]

PubUnchanged == UNCHANGED <<mainVars, incVars, ip, cap, fp, hs, rec, au, srv, mm>>

\* fetch(url): the request is recorded in the order it is made.
fetch(p, url) == [p EXCEPT !.fetches = Append(@, url)]

\* A catch that asks the external service once more before it gives up.
publicIPCatchRetrying(p) ==
    IF Len(p.fetches) < 3
    THEN fetch([p EXCEPT !.ppc = "ext"], "https://api.ipify.org?format=json")
    ELSE [p EXCEPT !.ppc = "returned", !.value = "null"]

\* catch (error) { return null; }
publicIPCatch(p) == [p EXCEPT !.ppc = "returned", !.value = "null"]

\* const data = await response.json(); return data.ip;
returnIpOf(p, body) ==
    IF body = "invalid" THEN publicIPCatch(p)
    ELSE [p EXCEPT !.ppc = "returned", !.value = body]

\* The call: fetch('/get-ip')
GetPublicIPCall ==
    /\ pub.ppc = "idle"
    /\ pub' = fetch([pub EXCEPT !.ppc = "own"], "/get-ip")
    /\ PubUnchanged

\* fetch('/get-ip') fulfilled: read the body if response.ok, else
\* fetch('https://api.ipify.org?format=json').
OwnResponded(status) ==
    /\ pub.ppc = "own"
    /\ pub' = LET p == [pub EXCEPT !.own = "responded", !.ownStatus = status]
              IN  IF ok(status) THEN [p EXCEPT !.ppc = "ownJson"]
                  ELSE fetch([p EXCEPT !.ppc = "ext"],
                             "https://api.ipify.org?format=json")
    /\ PubUnchanged

\* fetch('/get-ip') rejected: the catch returns null.
OwnRejected ==
    /\ pub.ppc = "own"
    /\ pub' = publicIPCatch([pub EXCEPT !.own = "rejected"])
    /\ PubUnchanged

\* response.json() of the same-origin answer settled.
OwnJson(body) ==
    /\ pub.ppc = "ownJson"
    /\ pub' = returnIpOf(pub, body)
    /\ PubUnchanged

\* The fallback fetch fulfilled: if (!ipifyResponse.ok) throw ...
ExtResponded(status) ==
    /\ pub.ppc = "ext"
    /\ pub' = LET p == [pub EXCEPT !.ext = "responded", !.extStatus = status]
              IN  IF ~ok(status) THEN publicIPCatch(p)
                  ELSE [p EXCEPT !.ppc = "extJson"]
    /\ PubUnchanged

\* The fallback fetch rejected.
ExtRejected ==
    /\ pub.ppc = "ext"
    /\ pub' = publicIPCatch([pub EXCEPT !.ext = "rejected"])
    /\ PubUnchanged

\* ipifyResponse.json() settled.
ExtJson(body) ==
    /\ pub.ppc = "extJson"
    /\ pub' = returnIpOf([pub EXCEPT !.extBody = body], body)
    /\ PubUnchanged

PublicIPNext ==
    \/ GetPublicIPCall
    \/ \E status \in Statuses : OwnResponded(status)
    \/ OwnRejected
    \/ \E body \in Bodies : OwnJson(body)
    \/ \E status \in Statuses : ExtResponded(status)
    \/ ExtRejected
    \/ \E body \in Bodies : ExtJson(body)

(***************************************************************************)
(* The probes of one run, from the click to the getUserMedia request       *)
(* (runTests 217-243, collectEnhancedFingerprint 152-215,                  *)
(* gatherRawFingerprint 261-334, the entropy probes 653-761)               *)
(*                                                                         *)
(* One action per awaited probe call.  The entropy probes run in one task: *)
(* detectWebGL, getCanvasFingerprint and getPlugins are synchronous, and   *)
(* getAudioFingerprint and detectFonts wait for nothing but promises that  *)
(* are already settled.  fp.log records the start and the end of every     *)
(* probe with its category.                                                *)
(***************************************************************************)

\* features: { webGL, canvas, audio, fonts, plugins, ... } in this order.
EntropyProbes == <<"webGL", "canvas", "audio", "fonts", "plugins">>

ProbeNames == {EntropyProbes[i] : i \in DOMAIN EntropyProbes}

\* A getCanvasFingerprint without its try block.
containedButCanvas(p) == p \in {"webGL", "audio"}

\* The probes whose body is a try block with catch (e) { return null; }.
contained(p) == p \in {"webGL", "canvas", "audio"}

\* A call that is not awaited: the next probe starts before it has settled.
probeEndsUnawaited(f, cat) == f

probeStarts(f, cat) == [f EXCEPT !.log = Append(@, [ev |-> "start", cat |-> cat])]

\* The awaited call has settled.
probeEnds(f, cat) == [f EXCEPT !.log = Append(@, [ev |-> "end", cat |-> cat])]

FpIdle ==
    [gpc |-> "idle", log |-> <<>>, throws |-> {}, ran |-> {},
     features |-> [p \in ProbeNames |-> "unset"],
     publicIP |-> "unset", location |-> "unset", gathered |-> "unset"]

FpUnchanged == UNCHANGED <<mainVars, incVars, ip, cap, pub, hs, rec, au, srv, mm>>

RECURSIVE runEntropyProbes(_, _, _)
\* Evaluates the features literal from probe number i on: a probe that
\* throws yields null if its exception is contained, and ends the
\* evaluation with gatherRawFingerprint rejected if it is not.
runEntropyProbes(f, i, throws) ==
    IF i > Len(EntropyProbes) THEN [f EXCEPT !.gpc = "gathered"]
    ELSE LET p   == EntropyProbes[i]
             ran == [f EXCEPT !.ran = @ \cup {p}]
         IN  IF p \notin throws
             THEN runEntropyProbes([ran EXCEPT !.features[p] = "value"], i + 1, throws)
             ELSE IF contained(p)
                  THEN runEntropyProbes([ran EXCEPT !.features[p] = "null"], i + 1, throws)
                  ELSE [ran EXCEPT !.gpc = "rejected"]

\* The click: runTests awaits updatePrivacyStatus (getNetworkInfo, getPublicIP).
ProbesRunTests ==
    /\ fp.gpc = "idle"
    /\ fp' = probeStarts([fp EXCEPT !.gpc = "rtPrivacyStatus"], "network")
    /\ FpUnchanged

\* updatePrivacyStatus resolved; await this.getPublicIP()
PrivacyStatusDone ==
    /\ fp.gpc = "rtPrivacyStatus"
    /\ fp' = probeStarts(probeEnds([fp EXCEPT !.gpc = "rtPublicIP"], "network"),
                         "network")
    /\ FpUnchanged

\* getPublicIP resolved; await this.getLocalIPs()
PublicIPDone ==
    /\ fp.gpc = "rtPublicIP"
    /\ fp' = probeStarts(probeEnds([fp EXCEPT !.gpc = "rtLocalIPs"], "network"),
                         "network")
    /\ FpUnchanged

\* getLocalIPs resolved; await this.getLocalIPLocation()
LocalIPsDone ==
    /\ fp.gpc = "rtLocalIPs"
    /\ fp' = probeStarts(probeEnds([fp EXCEPT !.gpc = "rtLocalLocation"], "network"),
                         "network")
    /\ FpUnchanged

\* getLocalIPLocation resolved; collectEnhancedFingerprint calls
\* gatherRawFingerprint, which awaits this.getPublicIP()
LocalLocationDone ==
    /\ fp.gpc = "rtLocalLocation"
    /\ fp' = probeStarts(probeEnds([fp EXCEPT !.gpc = "grPublicIP"], "network"),
                         "network")
    /\ FpUnchanged

\* getPublicIP resolved with address or null; await this.getLocalIPs()
GrPublicIPDone(address) ==
    /\ fp.gpc = "grPublicIP"
    /\ fp' = probeStarts(probeEnds([fp EXCEPT !.gpc = "grLocalIPs",
                                              !.publicIP = address], "network"),
                         "network")
    /\ FpUnchanged

\* getLocalIPs resolved; await this.collectLocation()
GrLocalIPsDone ==
    /\ fp.gpc = "grLocalIPs"
    /\ fp' = probeStarts(probeEnds([fp EXCEPT !.gpc = "grLocation"], "network"),
                         "location")
    /\ FpUnchanged

\* collectLocation resolved with coords or null; await this.detectIncognitoMode()
GrLocationDone(coords) ==
    /\ fp.gpc = "grLocation"
    /\ fp' = probeStarts(probeEnds([fp EXCEPT !.gpc = "grIncognito",
                                              !.location = coords], "location"),
                         "privacy")
    /\ FpUnchanged

\* detectIncognitoMode resolved: the features are evaluated, with the probes
\* of throws raising an exception.  If gatherRawFingerprint resolves, the
\* report is POSTed; if it rejects, collectEnhancedFingerprint rethrows and
\* runTests ends in its catch.
GrIncognitoDone(throws) ==
    /\ fp.gpc = "grIncognito"
    /\ fp' = LET f0 == probeStarts(probeEnds([fp EXCEPT !.throws = throws],
                                             "privacy"), "entropy")
                 f1 == probeEnds(runEntropyProbes(f0, 1, throws), "entropy")
             IN  [f1 EXCEPT !.gathered = f1.gpc,
                            !.gpc = IF @ = "gathered" THEN "post" ELSE "failed"]
    /\ FpUnchanged

\* The POST answered 2xx: captureAndSaveMedia calls getUserMedia.
ProbesPostOk ==
    /\ fp.gpc = "post"
    /\ fp' = probeStarts([fp EXCEPT !.gpc = "gum"], "media")
    /\ FpUnchanged

\* The POST answered non-2xx or the fetch rejected.
ProbesPostFail ==
    /\ fp.gpc = "post"
    /\ fp' = [fp EXCEPT !.gpc = "failed"]
    /\ FpUnchanged

ProbesNext ==
    \/ ProbesRunTests
    \/ PrivacyStatusDone
    \/ PublicIPDone
    \/ LocalIPsDone
    \/ LocalLocationDone
    \/ \E address \in {"null", "203.0.113.7"} : GrPublicIPDone(address)
    \/ GrLocalIPsDone
    \/ \E coords \in {"null", "coords"} : GrLocationDone(coords)
    \/ \E throws \in SUBSET ProbeNames : GrIncognitoDone(throws)
    \/ ProbesPostOk
    \/ ProbesPostFail

(***************************************************************************)
(* generateFingerprintHash (part_010 885-894)                              *)
(*                                                                         *)
(* A string is the sequence of its char codes.  The hash is a 32-bit       *)
(* integer, kept as its two 16-bit halves [hi, lo] so that the shift and   *)
(* the wrap-around of the code are computed exactly.                       *)
(***************************************************************************)

\* Number of calls of generateFingerprintHash that are modelled.
MaxCalls == 3

Half == 65536

Zero32 == [hi |-> 0, lo |-> 0]

\* The report data that are hashed: two fields of the raw fingerprint.
Reports == [incognito : BOOLEAN, cpuCores : {2, 4, 8}]

\* JSON.stringify(data): {"i":true,"c":8}
stringify(data) ==
    <<123, 34, 105, 34, 58>>
    \o (IF data.incognito THEN <<116, 114, 117, 101>> ELSE <<102, 97, 108, 115, 101>>)
    \o <<44, 34, 99, 34, 58, 48 + data.cpuCores, 125>>

\* hash << 5
shiftLeft5(h) ==
    [hi |-> (h.hi * 32 + (h.lo * 32) \div Half) % Half,
     lo |-> (h.lo * 32) % Half]

\* a - b, wrapped to 32 bits
minus32(a, b) ==
    LET borrow == IF a.lo < b.lo THEN 1 ELSE 0
    IN  [hi |-> (a.hi - b.hi - borrow + Half) % Half,
         lo |-> (a.lo - b.lo + Half) % Half]

\* a + char, wrapped to 32 bits
plusChar(a, char) ==
    [hi |-> (a.hi + (a.lo + char) \div Half) % Half,
     lo |-> (a.lo + char) % Half]

\* A hash that starts from the value the call before ended with.
initialHashCarried(previous) == previous

\* let hash = 0
initialHash(previous) == Zero32

isInt32(h) == h.hi \in 0..(Half - 1) /\ h.lo \in 0..(Half - 1)

\* a & a: a 32-bit value is left as it is, any other is wrapped to 32 bits.
andSelf(a) ==
    IF isInt32(a) THEN a ELSE [hi |-> a.hi % Half, lo |-> a.lo % Half]

RECURSIVE hashFrom(_, _, _)
\* The loop from character i on: hash = ((hash << 5) - hash) + char;
\* hash = hash & hash.
hashFrom(hash, str, i) ==
    IF i > Len(str) THEN hash
    ELSE LET sum == plusChar(minus32(shiftLeft5(hash), hash), str[i])
         IN  IF isInt32(sum) THEN hashFrom(sum, str, i + 1)
             ELSE hashFrom(andSelf(sum), str, i + 1)

\* The char code of a hexadecimal digit.
hexDigit(d) == IF d < 10 THEN 48 + d ELSE 87 + d

RECURSIVE hexText(_)
hexText(ds) ==
    IF ds = <<>> THEN <<>> ELSE <<hexDigit(Head(ds))>> \o hexText(Tail(ds))

RECURSIVE stripZeros(_)
stripZeros(ds) ==
    IF Len(ds) > 1 /\ ds[1] = 0 THEN stripZeros(Tail(ds)) ELSE ds

\* hash.toString(16): a minus sign and the magnitude for a negative value.
toString16(h) ==
    LET negative == h.hi >= Half \div 2
        m        == IF negative THEN minus32(Zero32, h) ELSE h
        nibbles  == << m.hi \div 4096, (m.hi \div 256) % 16, (m.hi \div 16) % 16,
                       m.hi % 16,
                       m.lo \div 4096, (m.lo \div 256) % 16, (m.lo \div 16) % 16,
                       m.lo % 16 >>
        text     == hexText(stripZeros(nibbles))
    IN  IF negative THEN <<45>> \o text ELSE text

\* The value of hash when the loop ends, for a call made after a call that
\* ended with previous.
hashOf(data, previous) ==
    hashFrom(initialHash(previous), stringify(data), 1)

generateFingerprintHash(data, previous) == toString16(hashOf(data, previous))

HsIdle == [calls |-> <<>>, previous |-> Zero32]

HsUnchanged == UNCHANGED <<mainVars, incVars, ip, cap, pub, fp, rec, au, srv, mm>>

\* A call of generateFingerprintHash(data).
HashCall(data) ==
    /\ Len(hs.calls) < MaxCalls
    /\ hs' = [calls    |-> Append(hs.calls,
                                  [data   |-> data,
                                   digest |-> generateFingerprintHash(data, hs.previous)]),
              previous |-> hashOf(data, hs.previous)]
    /\ HsUnchanged

HashNext == \E data \in Reports : HashCall(data)

(***************************************************************************)
(* recordAudio and the rest of the run after it: const audioBlob = await   *)
(* this.recordAudio(stream) in testMicrophone, saveProcessedMedia('audio') *)
(* and collectLocation                                                     *)
(***************************************************************************)

\* Number of dataavailable events of one recording that are modelled.
MaxChunks == 3

\* e.data.size of a dataavailable event.
ChunkSizes == {0, 1, 2}

RECURSIVE sizeOf(_)
\* The size of new Blob(parts): the sizes of the parts added up.
sizeOf(parts) ==
    IF parts = <<>> THEN 0 ELSE Head(parts) + sizeOf(Tail(parts))

Pending == [kind |-> "pending", size |-> 0]

Null == [kind |-> "null", size |-> 0]

Blob(parts) == [kind |-> "blob", size |-> sizeOf(parts)]

\* A handler that pushes every chunk.
keepsAny(size) == TRUE

\* if (e.data.size > 0) audioChunks.push(e.data)
keeps(size) == size > 0

RecIdle ==
    [state |-> "none", events |-> "none", timer |-> "none",
     delivered |-> <<>>, audioChunks |-> <<>>, value |-> Pending,
     micStatus |-> "", run |-> "idle"]

RecUnchanged == UNCHANGED <<mainVars, incVars, ip, cap, pub, fp, hs, au, srv, mm>>

\* resolve(value) of recordAudio's promise, and the continuation of
\* testMicrophone that the resolution schedules: with a blob it calls
\* saveProcessedMedia('audio'); with null it returns, captureAndSaveMedia
\* returns and runTests calls collectLocation.
resolveAudio(c, v) ==
    IF c.value.kind # "pending" THEN c
    ELSE [c EXCEPT !.value = v,
                   !.run = IF v.kind = "blob" THEN "saving" ELSE "location"]

\* recorder.stop(), or the user agent stopping the recorder: the state
\* becomes inactive and a dataavailable and a stop event are queued.
stopRecorder(c) == [c EXCEPT !.state = "inactive", !.events = "queued"]

\* testMicrophone up to its await, and the executor of recordAudio: new
\* MediaRecorder(stream) or recorder.start() may throw, and the catch
\* resolves null.
RecordAudioCall(fault) ==
    /\ rec.run = "idle"
    /\ rec' = LET c == [rec EXCEPT !.micStatus = "Detected", !.run = "microphone"]
              IN  CASE fault = "constructor" -> resolveAudio(c, Null)
                    [] fault = "start" ->
                         resolveAudio([c EXCEPT !.state = "inactive"], Null)
                    [] OTHER ->
                         [c EXCEPT !.state = "recording", !.timer = "armed"]
    /\ RecUnchanged

\* recorder.ondataavailable
DataAvailable(size) ==
    /\ rec.state = "recording" \/ rec.events = "queued"
    /\ Len(rec.delivered) < MaxChunks
    /\ rec' = [rec EXCEPT !.delivered = Append(@, size),
                          !.audioChunks = IF keeps(size) THEN Append(@, size) ELSE @]
    /\ RecUnchanged

\* setTimeout(() => { if (recorder.state === 'recording') recorder.stop() }, 6000)
RecordTimer ==
    /\ rec.timer = "armed"
    /\ rec' = LET c == [rec EXCEPT !.timer = "fired"]
              IN  IF rec.state = "recording" THEN stopRecorder(c) ELSE c
    /\ RecUnchanged

\* The tracks of the stream end, or the recorder fails: the user agent
\* stops the recorder.
RecorderInactivated ==
    /\ rec.state = "recording"
    /\ rec' = stopRecorder(rec)
    /\ RecUnchanged

\* recorder.onstop
OnStop ==
    /\ rec.events = "queued"
    /\ rec' = resolveAudio([rec EXCEPT !.events = "fired"],
                           IF Len(rec.audioChunks) > 0
                           THEN Blob(rec.audioChunks) ELSE Null)
    /\ RecUnchanged

\* saveProcessedMedia('audio') resolved: testMicrophone sets the status and
\* returns; runTests calls collectLocation.
SaveResolved ==
    /\ rec.run = "saving"
    /\ rec' = [rec EXCEPT !.micStatus = "Working properly", !.run = "location"]
    /\ RecUnchanged

\* saveProcessedMedia('audio') rejected: the exception reaches the catch of
\* runTests.
SaveRejected ==
    /\ rec.run = "saving"
    /\ rec' = [rec EXCEPT !.run = "failed"]
    /\ RecUnchanged

\* collectLocation resolved (it never rejects): the try block of runTests
\* ends.
LocationResolved ==
    /\ rec.run = "location"
    /\ rec' = [rec EXCEPT !.run = "done"]
    /\ RecUnchanged

RecordNext ==
    \/ \E fault \in {"none", "constructor", "start"} : RecordAudioCall(fault)
    \/ \E size \in ChunkSizes : DataAvailable(size)
    \/ RecordTimer
    \/ RecorderInactivated
    \/ OnStop
    \/ SaveResolved
    \/ SaveRejected
    \/ LocationResolved

(***************************************************************************)
(* getAudioFingerprint: the audio graph each call builds and leaves        *)
(***************************************************************************)

\* Number of calls of getAudioFingerprint that are modelled.
MaxProbeCalls == 3

\* The statements of the try block that act on the graph, in order.
AudioSteps == <<"construct", "connect", "start", "sample", "stop">>

\* The statement that throws in a call, if one does.
AudioFaults == {"none", "construct", "connect", "start", "sample", "stop"}

NoGraph ==
    [context |-> "none", connected |-> FALSE, oscillator |-> "none",
     value |-> "pending"]

\* One statement of the try block.  Nothing in the function calls
\* audioContext.close() or disconnect().
audioStep(g, step) ==
    CASE step = "construct" -> [g EXCEPT !.context = "running", !.oscillator = "idle"]
      [] step = "connect"   -> [g EXCEPT !.connected = TRUE]
      [] step = "start"     -> [g EXCEPT !.oscillator = "started"]
      [] step = "sample"    -> [g EXCEPT !.value = "data"]
      [] step = "stop"      -> [g EXCEPT !.oscillator = "stopped"]

RECURSIVE getAudioFingerprintFrom(_, _, _)
\* The try block from statement i on; catch (e) { return null; }
getAudioFingerprintFrom(g, i, fault) ==
    IF i > Len(AudioSteps) THEN g
    ELSE IF AudioSteps[i] = fault THEN [g EXCEPT !.value = "null"]
    ELSE getAudioFingerprintFrom(audioStep(g, AudioSteps[i]), i + 1, fault)

getAudioFingerprint(fault) == getAudioFingerprintFrom(NoGraph, 1, fault)

AuIdle == <<>>

AuUnchanged == UNCHANGED <<mainVars, incVars, ip, cap, pub, fp, hs, rec, srv, mm>>

\* One call; au keeps the graph each call has left behind.
AudioProbeCall(fault) ==
    /\ Len(au) < MaxProbeCalls
    /\ au' = Append(au, getAudioFingerprint(fault))
    /\ AuUnchanged

AudioNext == \E fault \in AudioFaults : AudioProbeCall(fault)

(***************************************************************************)
(* The server (src/project-root/server.js 64-282): one request through     *)
(* the middleware chain helmet, rateLimit, express.json with its verify    *)
(* hook, express.static, the header middleware, the routes, the 404        *)
(* handler and the error handler.  The requests modelled are within the    *)
(* rate limit and name no static file.  The fields of a body are the       *)
(* fields that hold a truthy value.                                        *)
(***************************************************************************)

\* The bodies the page sends to /collect-fingerprint:
\*   { type: 'processed_fingerprint', data: processedData, timestamp: ... }
\*   { location: { latitude, longitude } }
reportRequest ==
    [path |-> "/collect-fingerprint", json |-> "object",
     fields |-> {"type", "data", "timestamp"}, by |-> "collectEnhancedFingerprint"]

locationRequest ==
    [path |-> "/collect-fingerprint", json |-> "object",
     fields |-> {"location"}, by |-> "collectLocation"]

\* Requests of any client: a JSON object with any of the fields, a body
\* that is not JSON, or no body.
Requests ==
    {reportRequest, locationRequest}
    \cup [path : {"/collect-fingerprint"}, json : {"object"},
          fields : SUBSET {"data", "timestamp", "location"}, by : {"other"}]
    \cup [path : {"/collect-media"}, json : {"object"},
          fields : SUBSET {"data", "metadata.media_type"}, by : {"other"}]
    \cup [path : {"/collect-fingerprint", "/collect-media", "/nowhere"},
          json : {"invalid"}, fields : {{}}, by : {"other"}]
    \cup [path : {"/get-ip", "/nowhere"}, json : {"none"}, fields : {{}},
          by : {"other"}]

NoRequest == [path |-> "", json |-> "none", fields |-> {}, by |-> "none"]

\* Number of requests that are modelled, in flight together or one after
\* another.
MaxRequests == 2

NewRequest ==
    [stage |-> "idle", req |-> NoRequest, sent |-> <<>>, attempts |-> 0,
     socket |-> "open", upload |-> "none", timer |-> "none"]

SrvIdle == <<>>

SrvUnchanged == UNCHANGED <<mainVars, incVars, ip, cap, pub, fp, hs, rec, au, mm>>

\* res.status(status).json({ error }): the first call writes the response;
\* a later call throws, the headers having been sent.
respond(s, status, error) ==
    IF s.sent = <<>>
    THEN [s EXCEPT !.attempts = @ + 1,
                   !.sent = <<[status |-> status, error |-> error]>>]
    ELSE [s EXCEPT !.attempts = @ + 1]

\* The exception of a res.json() after the headers were sent, thrown in the
\* error handler: the final handler of the framework destroys the socket.
finalHandler(s) ==
    IF s.attempts > 1 THEN [s EXCEPT !.socket = "destroyed"] ELSE s

\* app.use((error, req, res, next) => { res.status(500).json(...) })
errorHandler(s) ==
    finalHandler(respond(s, 500, "Internal server error"))

\* verify: (req, res, buf) => { try { JSON.parse(buf) } catch (e) {
\*   res.status(400).json({ error: 'Invalid JSON' }); throw ... } }
\* The exception goes to the error handler.
verify(s) ==
    errorHandler(respond(s, 400, "Invalid JSON"))

\* A validation that asks for data only.
missingDataOnly(fields) == "data" \notin fields

\* !req.body.data || !req.body.timestamp
missing(fields) == "data" \notin fields \/ "timestamp" \notin fields

\* cloudinary.uploader.upload(...) is called and the handler awaits.
startUpload(s, racing) ==
    [s EXCEPT !.stage = "uploading", !.upload = "pending",
              !.timer = IF racing THEN "armed" ELSE "none"]

finished(s) == [s EXCEPT !.stage = "done"]

\* POST /collect-fingerprint up to its await.
collectFingerprint(s) ==
    IF missing(s.req.fields)
    THEN finished(respond(s, 400, "Missing required fields"))
    ELSE startUpload(s, TRUE)

\* POST /collect-media up to its await.
collectMedia(s) ==
    IF s.req.fields # {"data", "metadata.media_type"}
    THEN finished(respond(s, 400, "Invalid media data"))
    ELSE startUpload(s, FALSE)

\* The routes, then the 404 handler.
route(s) ==
    CASE s.req.path = "/collect-fingerprint" -> collectFingerprint(s)
      [] s.req.path = "/collect-media"       -> collectMedia(s)
      [] s.req.path = "/get-ip"              -> finished(respond(s, 200, ""))
      [] OTHER                               -> finished(respond(s, 404, "Not found"))

\* A request arrives; express.json reads its body.  Each request has its own
\* req and res, and its handler its own locals.
Receive(req) ==
    /\ Len(srv) < MaxRequests
    /\ srv' = Append(srv, [NewRequest EXCEPT !.stage = "body", !.req = req])
    /\ SrvUnchanged

\* The body has been read: the verify hook, then the routes.
BodyRead(i) ==
    /\ i \in DOMAIN srv
    /\ srv[i].stage = "body"
    /\ srv' = [srv EXCEPT ![i] = IF @.req.json = "invalid" THEN finished(verify(@))
                                 ELSE route(@)]
    /\ SrvUnchanged

\* The upload resolved: res.json({ success: true, ... }), unless the race
\* was lost to the timer.
UploadResolved(i) ==
    /\ i \in DOMAIN srv
    /\ srv[i].upload = "pending"
    /\ srv' = [srv EXCEPT ![i] =
                 LET s == [@ EXCEPT !.upload = "resolved"]
                 IN  IF @.stage = "uploading" THEN finished(respond(s, 200, ""))
                     ELSE s]
    /\ SrvUnchanged

\* The upload rejected: the catch answers 500, unless the race was lost.
UploadRejected(i) ==
    /\ i \in DOMAIN srv
    /\ srv[i].upload = "pending"
    /\ srv' = [srv EXCEPT ![i] =
                 LET s == [@ EXCEPT !.upload = "rejected"]
                 IN  IF @.stage = "uploading"
                     THEN finished(respond(s, 500,
                              IF @.req.path = "/collect-media"
                              THEN "Failed to save media"
                              ELSE "Failed to save fingerprint"))
                     ELSE s]
    /\ SrvUnchanged

\* setTimeout(() => reject(new Error('Upload timeout')), 10000): the race
\* rejects and the catch answers 500, unless the upload has settled.
UploadTimer(i) ==
    /\ i \in DOMAIN srv
    /\ srv[i].timer = "armed"
    /\ srv' = [srv EXCEPT ![i] =
                 LET s == [@ EXCEPT !.timer = "fired"]
                 IN  IF @.stage = "uploading"
                     THEN finished(respond(s, 500, "Failed to save fingerprint"))
                     ELSE s]
    /\ SrvUnchanged

ServerNext ==
    \/ \E req \in Requests : Receive(req)
    \/ \E i \in 1..MaxRequests : BodyRead(i)
    \/ \E i \in 1..MaxRequests : UploadResolved(i)
    \/ \E i \in 1..MaxRequests : UploadRejected(i)
    \/ \E i \in 1..MaxRequests : UploadTimer(i)

(***************************************************************************)
(* trackMouseMovements and trackTouchEvents                                *)
(* (src/project-root/public/collect.js 546-581): the listeners that        *)
(* collectAllData installs once.  An event is kept with the time of its    *)
(* arrival; the coordinates, which the listener only copies, are left out. *)
(***************************************************************************)

\* Number of mousemove events that are modelled.
MaxMoves == 52

\* Number of touch events that are modelled.
MaxTouches == 1

\* "Keep only last 50 movements"
KeepLast == 50

\* A listener that drops the newest entry.
pop(movements) == SubSeq(movements, 1, Len(movements) - 1)

\* mouseMovements.shift()
shift(movements) == Tail(movements)

\* The mousemove listener.
onMouseMove(movements, e) ==
    LET pushed == Append(movements, e)
    IN  IF Len(pushed) > KeepLast THEN shift(pushed) ELSE pushed

MmIdle == [clock |-> 0, mouseMovements |-> <<>>, arrived |-> <<>>, touchEvents |-> <<>>]

MmUnchanged == UNCHANGED <<mainVars, incVars, ip, cap, pub, fp, hs, rec, au, srv>>

\* A mousemove event; arrived is the record of every such event.
MouseMove ==
    /\ Len(mm.arrived) < MaxMoves
    /\ mm' = LET e == [timestamp |-> mm.clock + 1]
             IN  [mm EXCEPT !.clock = @ + 1,
                            !.mouseMovements = onMouseMove(@, e),
                            !.arrived = Append(@, e)]
    /\ MmUnchanged

\* A touchstart or touchend event.
Touch(type) ==
    /\ Len(mm.touchEvents) < MaxTouches
    /\ mm' = [mm EXCEPT !.clock = @ + 1,
                        !.touchEvents = Append(@, [type |-> type,
                                                   timestamp |-> mm.clock + 1])]
    /\ MmUnchanged

TrackingNext ==
    \/ MouseMove
    \/ \E type \in {"start", "end"} : Touch(type)

(***************************************************************************)
(* Initial states and specifications                                       *)
(***************************************************************************)

\* detectIncognitoMode not under study: one browser, never called.
IncognitoParked ==
    /\ env = [chrome |-> TRUE, firefox |-> FALSE, safari |-> TRUE, hasEstimate |-> TRUE,
              fs |-> "absent", idbOpen |-> "returns", ls |-> "ok", hasSW |-> TRUE]
    /\ det = DetIdle

\* No probe has been called.
ProbesIdle ==
    /\ ip = IpIdle
    /\ cap = CapIdle
    /\ pub = PubIdle
    /\ fp = FpIdle
    /\ hs = HsIdle
    /\ rec = RecIdle
    /\ au = AuIdle
    /\ srv = SrvIdle
    /\ mm = MmIdle

IncognitoInit ==
    /\ env \in Envs
    /\ det = DetIdle
    /\ ProbesIdle
    /\ MainInit

LocalIPsInit ==
    /\ ProbesIdle
    /\ IncognitoParked
    /\ MainInit

CaptureInit ==
    /\ ProbesIdle
    /\ IncognitoParked
    /\ MainInit

PublicIPInit ==
    /\ ProbesIdle
    /\ IncognitoParked
    /\ MainInit

ProbesInit ==
    /\ ProbesIdle
    /\ IncognitoParked
    /\ MainInit

SpecIncognito == IncognitoInit /\ [][IncognitoNext]_vars

SpecLocalIPs == LocalIPsInit /\ [][LocalIPsNext]_vars

SpecCapture == CaptureInit /\ [][CaptureNext]_vars

SpecPublicIP == PublicIPInit /\ [][PublicIPNext]_vars

SpecProbes == ProbesInit /\ [][ProbesNext]_vars

HashInit ==
    /\ ProbesIdle
    /\ IncognitoParked
    /\ MainInit

SpecHash == HashInit /\ [][HashNext]_vars

RecordInit ==
    /\ ProbesIdle
    /\ IncognitoParked
    /\ MainInit

SpecRecord == RecordInit /\ [][RecordNext]_vars

AudioInit ==
    /\ ProbesIdle
    /\ IncognitoParked
    /\ MainInit

SpecAudio == AudioInit /\ [][AudioNext]_vars

ServerInit ==
    /\ ProbesIdle
    /\ IncognitoParked
    /\ MainInit

SpecServer == ServerInit /\ [][ServerNext]_vars

TrackingInit ==
    /\ ProbesIdle
    /\ IncognitoParked
    /\ MainInit

SpecTracking == TrackingInit /\ [][TrackingNext]_vars

Init == MainInit /\ IncognitoParked /\ ProbesIdle

Spec == Init /\ [][Next]_vars

(***************************************************************************)
(* Properties of the pipeline                                              *)
(***************************************************************************)

\* Run r settles in this step.
Settles(r) == pc[r] \notin Settled /\ pc'[r] \in Settled

\* C1: whatever step of runTests succeeds or fails, when runTests settles
\* every track of the stream acquired in that run is stopped, the video
\* element's srcObject is null and the element hidden, and the placeholder is
\* shown.
C1_SettledReleased ==
    [][\A r \in Runs :
          Settles(r) =>
              /\ ~Live(r)'
              /\ app'.srcObject = NoStream
              /\ app'.videoDisplay = "none"
              /\ app'.placeholderDisplay = "block"]_vars

\* C2: in every reachable state, a second cleanup() changes nothing that the
\* first one left, and after cleanup() no track of this.mediaStream is live.
C2_CleanupIdempotent ==
    LET once == cleanup(World)
    IN /\ cleanup(once) = once
       /\ once.app.mediaStream # NoStream =>
             /\ once.tracks[once.app.mediaStream].video # "live"
             /\ once.tracks[once.app.mediaStream].audio # "live"

\* A handler has just run cleanup() on a stream whose two tracks it ended
\* while the audio visualizer had been started on it.
C2_Witness ==
    /\ lastCleanups = 1
    /\ app.mediaStream # NoStream
    /\ tracks[app.mediaStream] = [video |-> "ended", audio |-> "ended"]
    /\ app.micStatus = "Detected"
    /\ app.audioContext = "null"
    /\ app.srcObject = NoStream

\* C3: when the page is hidden while a run is awaiting a pipeline step,
\* cleanup() runs exactly once, no run has settled in that step, and every
\* track of a stream acquired by a run in progress is stopped.
C3_HiddenStopsAll ==
    [][(VisibilityChange(TRUE) /\ \E r \in Runs : InProgress(r)) =>
          /\ lastCleanups' = 1
          /\ pc' = pc
          /\ \A r \in Runs : InProgress(r) => ~Live(r)']_vars

\* C4: once a page signal was delivered during a run, no track acquired by
\* that run is live, whether it was acquired before or after the signal.
C4_NoLiveAfterSignal ==
    \A r \in Runs : interrupted[r] => ~Live(r)

(***************************************************************************)
(* Properties of detectIncognitoMode                                       *)
(***************************************************************************)

Methods == {det.results.detectionMethods[i] :
               i \in 1..Len(det.results.detectionMethods)}

Returns == det.dpc # "returned" /\ det'.dpc = "returned"

\* C5: the verdict detectIncognitoMode returns is isIncognito = true if and
\* only if at least two distinct methods were recorded; with one, it is false.
C5_TwoMethodVerdict ==
    [][Returns =>
          LET ms == {det'.results.detectionMethods[i] :
                        i \in 1..Len(det'.results.detectionMethods)}
          IN /\ det'.results.isIncognito <=> Cardinality(ms) >= 2
             /\ Cardinality(ms) = 1 => ~det'.results.isIncognito]_vars

\* Returned with two recorded methods and the verdict true.
C5_Witness ==
    /\ det.dpc = "returned"
    /\ det.idbReq # "fired"
    /\ Cardinality(Methods) = 2
    /\ det.results.isIncognito

\* C6: detection always completes: whatever the probed APIs do, a call that
\* has not returned can take its next step.
C6_DetectionSettles ==
    det.dpc \in {"idle", "returned"} \/ ENABLED IncognitoStep

\* C7: detectIncognitoMode never throws, and when every probed API call
\* failed with an exception the returned verdict is isIncognito = false.
C7_NeverThrows ==
    /\ det.dpc # "threw"
    /\ det.dpc = "returned" /\ det.allThrew => ~det.results.isIncognito

\* Returned after every call threw, with the localStorage exception recorded.
C7_Witness ==
    /\ det.dpc = "returned"
    /\ det.allThrew
    /\ env.hasEstimate /\ env.fs = "throws" /\ env.firefox /\ env.idbOpen = "throws"
    /\ Methods = {"localStorage"}
    /\ ~det.results.isIncognito

UnknownUA == ~env.chrome /\ ~env.firefox /\ ~env.safari

\* C8: on a user agent that matches none of the Chrome, Firefox and Safari
\* checks no signal is recorded and the verdict is never true.
C8_UnknownNoSignal ==
    UnknownUA =>
        /\ Methods = {}
        /\ det.dpc = "returned" => ~det.results.isIncognito

\* C8 as amended: on such a user agent no engine-specific signal is recorded
\* (storageQuota, which is probed on every engine, is the only one possible)
\* and the returned verdict is never true.
C8_UnknownNoEngineSignal ==
    UnknownUA =>
        /\ Methods \subseteq {"storageQuota"}
        /\ det.dpc = "returned" => ~det.results.isIncognito

\* Returned on an unknown user agent whose requestFileSystem failed and
\* whose low quota was recorded.
C8_Witness ==
    /\ UnknownUA
    /\ env.fs = "error"
    /\ det.dpc = "returned"
    /\ Methods = {"storageQuota"}
    /\ ~det.results.isIncognito

(***************************************************************************)
(* Properties of getLocalIPs                                               *)
(***************************************************************************)

\* C9: getLocalIPs always resolves, by the gathering-complete signal or by
\* the 2 s timer, whether or not a candidate was found: a call whose promise
\* is pending has its timer armed, and once the timer has fired the promise
\* is resolved, whatever the peer connection did.
C9_ResolvedByTimer ==
    ip.lpc = "called" =>
        /\ ~ip.resolved => ip.timer = "armed"
        /\ ip.timer = "fired" => ip.resolved

\* The timer fired while gathering was under way with no address found, and
\* it is the timer that resolved the promise.
C9_Witness ==
    /\ ip.timer = "fired"
    /\ ip.resolvedBy = "timer"
    /\ ip.gathering = "gathering"
    /\ ip.value = failureResult

\* C10: on every path on which getLocalIPs resolves (gathering complete,
\* timeout, failure of createOffer / setLocalDescription) the peer connection
\* it opened is closed by the time the result is finalized.
C10_ClosedWhenResolved ==
    ip.resolved /\ ip.connAtResolve # "none" => ip.connAtResolve = "closed"

\* C11: when the RTCPeerConnection capability is absent, getLocalIPs resolves
\* in the call itself, with no timer armed, to empty IPv4 and IPv6 address
\* sets.
C11_AbsentResolvesEmpty ==
    ip.resolvedBy = "catch" =>
        /\ ip.timer = "none"
        /\ ip.value.ipv4 = {}
        /\ ip.value.ipv6 = {}

(***************************************************************************)
(* Properties of captureImageFrame                                         *)
(***************************************************************************)

\* C12: captureImageFrame draws at most 1 + 3 frames (the first attempt and
\* at most three retries), and a frame whose sampled region is entirely zero
\* is handed to toBlob, and resolved, only when no retry remains.
C12_BoundedRetriesNoBlank ==
    /\ cap.draws <= 1 + DefaultAttempts
    /\ cap.draws + cap.attempts = 1 + DefaultAttempts \/ cap.cpc = "idle"
    /\ cap.cpc \in {"encoding", "resolved"} /\ isBlank(cap.imageData)
           => cap.attempts = 0
    /\ cap.cpc = "resolved" /\ isBlank(cap.blobOf) => cap.attemptsLeft = 0

\* Two blank frames were retried and the third draw, not blank, was resolved
\* with a retry to spare.
C12_Witness ==
    /\ cap.cpc = "resolved"
    /\ cap.draws = 3
    /\ ~isBlank(cap.blobOf)
    /\ cap.attemptsLeft = 1

(***************************************************************************)
(* Properties of the media tester                                          *)
(***************************************************************************)

\* C13: when getUserMedia rejects with NotAllowedError, captureAndSaveMedia
\* ends in the permission-denied failure (camera and microphone status
\* 'Failed', the permission-denied message), runTests fails, cleanup runs, and
\* afterwards no stream is attached to the video element.
C13_PermissionDenied ==
    [][\A r \in Runs :
          GumRejected(r, "NotAllowedError") =>
              LET denied == handleMediaError(app, "NotAllowedError")
              IN  /\ denied.cameraStatus = "Failed"
                  /\ denied.micStatus = "Failed"
                  /\ denied.statusText = "Camera/microphone access denied"
                  /\ pc'[r] = "failed"
                  /\ lastCleanups' = 1
                  /\ app'.cameraStatus = "Failed"
                  /\ app'.micStatus = "Failed"
                  /\ app'.srcObject = NoStream
                  /\ app'.videoDisplay = "none"]_vars

\* A run has failed on a denied permission.
C13_Witness ==
    \E r \in Runs :
        /\ pc[r] = "failed"
        /\ tracks[r] = NoTracks
        /\ app.statusText = errorStatus("NotAllowedError")
        /\ app.cameraStatus = "Failed"
        /\ app.srcObject = NoStream

(***************************************************************************)
(* Properties of getPublicIP                                               *)
(***************************************************************************)

\* C14: when the same-origin /get-ip lookup answers with a non-success
\* status (HTTP 500 for one), getPublicIP queries the external lookup
\* service, and when that service succeeds returns its address, not null.
C14_FallbackOnStatus ==
    pub.ppc = "returned" /\ pub.own = "responded" /\ pub.ownStatus \notin 200..299
        => /\ pub.ext # "none"
           /\ pub.ext = "responded" /\ pub.extStatus \in 200..299
                  /\ pub.extBody \in Addresses
                  => pub.value = pub.extBody /\ pub.value # "null"

\* /get-ip answered 500 and the address of the external service was returned.
C14_Witness ==
    /\ pub.ppc = "returned"
    /\ pub.ownStatus = 500
    /\ pub.ext = "responded"
    /\ pub.value = "203.0.113.7"

\* C15: when the fetch of /get-ip itself rejects, getPublicIP falls back to
\* the external lookup service and returns its address when that service
\* succeeds.
C15_FallbackOnTransport ==
    pub.ppc = "returned" /\ pub.own = "rejected"
        => /\ pub.ext # "none"
           /\ pub.ext = "responded" /\ pub.extStatus \in 200..299
                  /\ pub.extBody \in Addresses
                  => pub.value = pub.extBody

(***************************************************************************)
(* Properties of the probes of one run                                     *)
(***************************************************************************)

C17_EveryProbeContained ==
    fp.ran # {} =>
        /\ \A p \in fp.throws : fp.features[p] = "null"
        /\ fp.ran = ProbeNames
        /\ fp.gathered = "gathered"

Starts(cat) == {i \in DOMAIN fp.log : fp.log[i] = [ev |-> "start", cat |-> cat]}

Ends(cat) == {i \in DOMAIN fp.log : fp.log[i] = [ev |-> "end", cat |-> cat]}

Events(cat) == Starts(cat) \cup Ends(cat)

MediaRank(p) ==
    CASE p = "gum" -> 1
      [] p \in {"meta", "play"} -> 2
      [] p = "camera" -> 3
      [] p = "microphone" -> 4
      [] p = "location" -> 5
      [] p = "done" -> 6
      [] OTHER -> 0

\* C19: within a run the media tester goes through Idle, RequestingPermission,
\* StreamAcquired, CapturingImage, CapturingAudio, Released in this order,
\* failure being possible at any step: audio recording starts only when image
\* capture has finished, and a capture step starts only on a stream whose
\* tracks have not been released.
C19_MediaOrder ==
    [][\A r \in Runs :
          pc'[r] # pc[r] =>
              /\ pc'[r] # "failed" => MediaRank(pc'[r]) >= MediaRank(pc[r])
              /\ pc'[r] = "microphone" => pc[r] = "camera"
              /\ pc'[r] = "camera" => tracks'[r].video = "live"
              /\ pc'[r] = "microphone" => tracks'[r].audio = "live"]_vars

\* The await resumptions of runTests other than the two events of the video
\* element: network answers, the permission prompt, timers.
Resumptions ==
    \E r \in Runs :
        \/ PrivacyDone(r) \/ GatherDone(r) \/ GatherFail(r)
        \/ PostOk(r) \/ PostFail(r)
        \/ \E hasAudio \in BOOLEAN : GumGranted(r, hasAudio)
        \/ \E err \in GumErrors : GumRejected(r, err)
        \/ PlayOk(r) \/ PlayFail(r)
        \/ CameraOk(r) \/ CameraFail(r)
        \/ \E gotBlob \in BOOLEAN : MicrophoneDone(r, gotBlob)
        \/ MicrophoneFail(r)
        \/ LocationDone(r)

\* The pipeline with every pending answer and timer eventually delivered;
\* the video element owes no event.
SpecLive == Init /\ [][Next]_vars /\ WF_vars(Resumptions)

\* C20: the wait for loadedmetadata in setupVideoStream is bounded: a run
\* that waits for it leaves the wait, by a timeout if neither loadedmetadata
\* nor an error event arrives.
C20_MetadataWaitEnds ==
    \A r \in Runs : (pc[r] = "meta") ~> (pc[r] # "meta")

\* C21: every invocation of runTests eventually settles, whatever the probes,
\* the capture devices and the network do (and then leaves the button enabled
\* and the capture resources released).
C21_RunSettles ==
    \A r \in Runs : InProgress(r) ~> (pc[r] \in Settled)

(***************************************************************************)
(* Properties of generateFingerprintHash                                   *)
(***************************************************************************)

C23_StreamNotRetained ==
    \A r \in Runs :
        pc[r] \in Settled => app.mediaStream # r /\ app.srcObject # r

\* The await points of runTests that come after the POST of the report.
AfterPost == {"gum", "meta", "play", "camera", "microphone", "location", "done"}

\* C24: a run submits the report with exactly one POST: none before the
\* submission, one from then on.  When the POST fails the run ends in the
\* error state, with the button enabled and labelled 'Retry Test', and the
\* run sends no second POST.
C24_OnePostNoRetry ==
    [][\A r \in Runs :
        /\ Len(posts'[r]) <= 1
        /\ pc'[r] \in AfterPost \cup {"post"} => Len(posts'[r]) = 1
        /\ pc'[r] \in AfterPost => posts'[r] = <<"ok">>
        /\ (posts[r] = <<"pending">> /\ posts'[r] = <<"failed">>)
               => /\ pc'[r] = "failed"
                  /\ ~app'.buttonDisabled
                  /\ app'.buttonText = "Retry Test"
                  /\ app'.statusText = errorStatus("other")
        /\ posts[r] = <<"failed">>
               => posts'[r] = <<"failed">> /\ pc'[r] = "failed"]_vars

C24_Witness ==
    \E r \in Runs :
        /\ posts[r] = <<"failed">>
        /\ pc[r] = "failed"
        /\ app.buttonText = "Retry Test"
        /\ \E q \in Runs : posts[q] = <<"ok">> /\ pc[q] = "done"

\* C25: recordAudio never rejects.  It resolves to one buffer made of the
\* chunks when a non-empty chunk was recorded and to null when none was, and
\* after a null the run does not fail: it goes on to its successful end.
C25_NullAudioNoError ==
    /\ rec.value.kind \in {"pending", "null", "blob"}
    /\ rec.value.kind = "blob"
           => /\ \E i \in DOMAIN rec.delivered : rec.delivered[i] > 0
              /\ rec.value.size = sizeOf(rec.delivered)
    /\ rec.value.kind = "null"
           => /\ \A i \in DOMAIN rec.delivered : rec.delivered[i] = 0
              /\ rec.run \in {"location", "done"}
    /\ rec.run = "failed" => rec.value.kind = "blob"

C25_Witness ==
    /\ rec.value.kind = "null"
    /\ rec.delivered # <<>>
    /\ rec.run = "done"

\* C26: when getAudioFingerprint has returned, with a value or with null,
\* the graph it built is stopped and detached: the oscillator is not
\* running, the nodes are disconnected and the context is not open.
C26_AudioGraphReleased ==
    \A i \in DOMAIN au :
        /\ au[i].oscillator # "started"
        /\ ~au[i].connected
        /\ au[i].context # "running"

\* The classes of the addresses among the candidates: loopback, link-local,
\* and names obscured by mDNS.
isLoopback(a) == a = "127.0.0.1"

isLinkLocal(a) == a \in {"fe80:0:0:0:a1:b2:c3:d4", "fe80::1"}

isObscured(a) == a = "3f2a9c.local"

\* C27: whatever candidates were gathered, the address lists getLocalIPs
\* resolves to hold no loopback address, no link-local address and no
\* .local name.  (The lists are spreads of Sets, modelled as sets: they hold
\* no address twice.)
C27_NoNoiseAddresses ==
    ip.resolved =>
        \A a \in ip.value.ipv4 \cup ip.value.ipv6 :
            ~isLoopback(a) /\ ~isLinkLocal(a) /\ ~isObscured(a)

\* The number of requests made to url.
requestsTo(url) ==
    Cardinality({i \in DOMAIN pub.fetches : pub.fetches[i] = url})

\* The same-origin lookup has failed: the fetch rejected or the answer was
\* not 2xx.
ownFailed ==
    \/ pub.own = "rejected"
    \/ pub.own = "responded" /\ ~ok(pub.ownStatus)

\* The external lookup has failed: the fetch rejected, the answer was not
\* 2xx, or its body could not be read.
extFailed ==
    \/ pub.ext = "rejected"
    \/ pub.ext = "responded" /\ ~ok(pub.extStatus)
    \/ pub.extBody = "invalid"

\* C28: getPublicIP makes at most one request to each service, and when both
\* lookups have failed it has returned null, with no further request.
C28_BothFailNullOnce ==
    /\ requestsTo("/get-ip") <= 1
    /\ requestsTo("https://api.ipify.org?format=json") <= 1
    /\ ownFailed /\ extFailed => pub.ppc = "returned" /\ pub.value = "null"

C28_Witness ==
    /\ ownFailed
    /\ pub.ext = "rejected"
    /\ pub.value = "null"
    /\ pub.fetches = <<"/get-ip", "https://api.ipify.org?format=json">>

\* C29: on a Chrome user agent with service workers and no registration, a
\* register('sw.js') call that rejects is recorded: 'serviceWorker' is among
\* the detection methods when detectIncognitoMode returns.
C29_RejectedRegisterRecorded ==
    det.register = "rejected" => "serviceWorker" \in Methods

\* C30: when every attempt, the last included, sampled an all-zero region,
\* captureImageFrame gives up: the promise is not resolved with a blob of the
\* blank frame (which testCamera would upload and report as a working
\* camera).
C30_BlankFrameGivenUp ==
    cap.cpc = "resolved" => ~isBlank(cap.blobOf)

\* C31: the storageQuota signal is recorded exactly when the quota that
\* estimate() reported is below 120 * 1024 * 1024: every quota under the
\* threshold, the smallest included, is flagged, and no other is.
C31_QuotaBelowThreshold ==
    det.quota # <<>> =>
        ("storageQuota" \in Methods <=> det.quota[1] < LowQuota)

\* C32: at most one runTests pipeline is in progress at any time: no click
\* starts a second run while a run has not settled (the start button being
\* disabled from the start of a run until it settles).
C32_OneRunAtATime ==
    \A r, q \in Runs : InProgress(r) /\ InProgress(q) => r = q

\* C33: once detectIncognitoMode has returned, the result object it returned
\* is not modified again: no later callback sets isIncognito or appends a
\* method.
C33_ResultFrozen ==
    [][det.dpc = "returned" => det'.results = det.results]_vars

\* C34: when the submission of the report fails, the run ends in the error
\* state and never requests a capture device: a run is at or past its
\* getUserMedia call only if its POST was answered ok, and a run whose POST
\* failed is in the error state with no stream acquired.
C34_NoCaptureAfterFailedPost ==
    \A r \in Runs :
        /\ pc[r] \in AfterPost => posts[r] = <<"ok">>
        /\ posts[r] = <<"failed">> => pc[r] = "failed" /\ tracks[r] = NoTracks

C34_Witness ==
    \E r, q \in Runs :
        /\ posts[r] = <<"failed">>
        /\ pc[r] = "failed"
        /\ tracks[r] = NoTracks
        /\ pc[q] = "gum"

(***************************************************************************)
(* Properties of the server                                                *)
(***************************************************************************)

MissingFields == <<[status |-> 400, error |-> "Missing required fields"]>>

\* C35: every body the page POSTs to /collect-fingerprint, the report and
\* the location alike, holds the data and timestamp fields the server's
\* validation requires: none is answered with 400 'Missing required fields'.
C35_PageBodiesValid ==
    \A i \in DOMAIN srv :
        srv[i].req.by \in {"collectEnhancedFingerprint", "collectLocation"}
            => srv[i].sent # MissingFields

\* C37: a POST to /collect-fingerprint whose body lacks data or timestamp is
\* answered with 400 'Missing required fields', and no upload is started for
\* it.
C37_MissingFieldsRejected ==
    \A i \in DOMAIN srv :
        /\ srv[i].req.path = "/collect-fingerprint"
        /\ srv[i].req.json = "object"
        /\ "data" \notin srv[i].req.fields \/ "timestamp" \notin srv[i].req.fields
        => /\ srv[i].upload = "none"
           /\ srv[i].stage = "done" => srv[i].sent = MissingFields

\* A body with data and no timestamp was answered, beside a request whose
\* upload was started.
C37_Witness ==
    \E i, j \in DOMAIN srv :
        /\ srv[i].req.path = "/collect-fingerprint"
        /\ srv[i].req.fields = {"data"}
        /\ srv[i].stage = "done"
        /\ srv[i].sent = MissingFields
        /\ srv[j].upload = "pending"

\* C38: exactly one response is written for every request: none before the
\* handling ends, and at its end one res.json() call has been made, the
\* response it wrote stands and the connection is intact.
C38_OneResponse ==
    \A i \in DOMAIN srv :
        /\ srv[i].attempts <= 1
        /\ srv[i].stage = "done"
               => /\ srv[i].attempts = 1
                  /\ Len(srv[i].sent) = 1
                  /\ srv[i].socket = "open"

(***************************************************************************)
(* Properties of the trackers                                              *)
(***************************************************************************)

\* C39: after any sequence of mousemove events mouseMovements holds at most
\* 50 entries, and they are the most recent events, in the order of their
\* arrival.
C39_LastFiftyInOrder ==
    /\ Len(mm.mouseMovements) <= 50
    /\ mm.mouseMovements =
           SubSeq(mm.arrived,
                  IF Len(mm.arrived) > 50 THEN Len(mm.arrived) - 49 ELSE 1,
                  Len(mm.arrived))

\* More than 50 events have arrived, a touch among them.
C39_Witness ==
    /\ Len(mm.arrived) = 52
    /\ Len(mm.mouseMovements) = 50
    /\ mm.touchEvents # <<>>
    /\ mm.mouseMovements[50] = mm.arrived[52]

(***************************************************************************)
(* Properties of handleMediaError                                          *)
(***************************************************************************)

\* C36: whatever value captureAndSaveMedia catches, the event that
\* video.onerror passes to reject included, handleMediaError returns and
\* leaves the camera and the microphone status at 'Failed': a run that
\* fails between getUserMedia and the end of the microphone test shows
\* 'Failed' for both.
C36_MediaFailureShown ==
    [][\A r \in Runs :
        (pc[r] \in {"gum", "meta", "play", "camera", "microphone"}
            /\ pc'[r] = "failed")
        => app'.cameraStatus = "Failed" /\ app'.micStatus = "Failed"]_vars

====
